---- MODULE Spec2Model ----
(***************************************************************************)
(* Model of the example provider plugin (examples/plugins/example-python/  *)
(* plugin.py): a Flask application with one process-wide configuration     *)
(* dictionary and six request handlers.  Flask's server (app.run,          *)
(* plugin.py:358) dispatches every request on its own thread, so the       *)
(* handlers run on two workers whose steps interleave: one step per read   *)
(* or write of the shared dictionary by a handler that builds an upstream  *)
(* request from it, and one step per upstream call.  dict.update is one    *)
(* step (it runs under the interpreter lock).                              *)
(***************************************************************************)
EXTENDS Integers, Sequences, FiniteSets, TLC

VARIABLES
    config,     \* the global dict `config` (plugin.py:39)
    pc,         \* per worker: position inside the handler it is running
    op,         \* per worker: which handler it is running or last ran
    req,        \* per worker: the parsed JSON body of the request (request.json)
    loc,        \* per worker: config values already read into the upstream call
    snap,       \* per worker (history): Config states held while it was reading
    up,         \* per worker: what the upstream call of the handler produced
    resp,       \* per worker: the HTTP response the handler returned
    calls,      \* per worker: upstream network calls made by the current handler
    status_in,  \* classifier check: the upstream status given to the classifier
    kind_out    \* classifier check: the kind it produced ("" before it ran)

vars == <<config, pc, op, req, loc, snap, up, resp, calls, status_in, kind_out>>

Workers == {"w1", "w2"}

(***************************************************************************)
(* Bounds of the model.                                                    *)
(***************************************************************************)
MinStatus == 100
MaxStatus == 599

(***************************************************************************)
(* Program constants.                                                      *)
(***************************************************************************)
DefaultEndpoint == "https://api.openai.com/v1"
DefaultTimeout == 30
ProbeTimeout == 5

EmptyMap == [k \in {} |-> 0]

\* config = {'api_key': '', 'endpoint': ..., 'timeout': 30}
DefaultConfig ==
    [api_key |-> "", endpoint |-> DefaultEndpoint, timeout |-> DefaultTimeout]

\* The closed error taxonomy of the plugin protocol.
ErrorKinds ==
    {"invalid_request", "authentication_failed", "rate_limit_exceeded",
     "model_not_found", "provider_unavailable", "timeout", "internal_error"}

(***************************************************************************)
(* JSON values.  A value is tagged with its Python type so that the        *)
(* handlers' type-dependent steps (truthiness, `in`, .get) can be computed *)
(* as Python computes them.                                                *)
(***************************************************************************)
JNull == [t |-> "null", v |-> 0]
JInvalid == [t |-> "invalid", v |-> 0]
JStr(s) == [t |-> "str", v |-> s]
JNum(n) == [t |-> "num", v |-> n]
JList(n) == [t |-> "list", v |-> n]
JDict(m) == [t |-> "dict", v |-> m]

\* dict.update(other): keys of `other` override, the other keys are kept.
Update(d, m) ==
    [k \in (DOMAIN d) \cup (DOMAIN m) |-> IF k \in DOMAIN m THEN m[k] ELSE d[k]]

\* bool(value) for the JSON values that occur.
Truthy(j) ==
    CASE j.t = "null" -> FALSE
      [] j.t = "str" -> j.v # ""
      [] j.t = "num" -> j.v # 0
      [] j.t = "list" -> j.v # 0
      [] j.t = "dict" -> DOMAIN j.v # {}
      [] OTHER -> FALSE

\* mapping.get(key): the value, or None when the key is absent.
Get(m, k) == IF k \in DOMAIN m THEN m[k] ELSE JNull

(***************************************************************************)
(* Upstream response bodies and what json.loads makes of them.             *)
(***************************************************************************)
TextErrMsg == "{\"error\":{\"message\":\"slow down\"}}"
TextErrNoMsg == "{\"error\":{}}"
TextEmptyObj == "{}"
TextErrStr == "{\"error\":\"bad\"}"
TextList == "[]"
TextHtml == "<html>"
TextUsage == "{\"usage\":{\"total_tokens\":1000}}"
TextUsageNull == "{\"usage\":null}"

Texts ==
    {TextErrMsg, TextErrNoMsg, TextEmptyObj, TextErrStr, TextList, TextHtml,
     TextUsage, TextUsageNull}

\* resp.json(): the parsed body, JInvalid when decoding raises.
JsonLoads(text) ==
    CASE text = TextErrMsg ->
            JDict([error |-> JDict([message |-> JStr("slow down")])])
      [] text = TextErrNoMsg -> JDict([error |-> JDict(EmptyMap)])
      [] text = TextEmptyObj -> JDict(EmptyMap)
      [] text = TextErrStr -> JDict([error |-> JStr("bad")])
      [] text = TextList -> JList(0)
      [] text = TextUsage ->
            JDict([usage |-> JDict([total_tokens |-> JNum(1000)])])
      [] text = TextUsageNull -> JDict([usage |-> JNull])
      [] OTHER -> JInvalid

\* str(e) of the exceptions the handlers can raise on these inputs.
MsgJsonDecode == "Expecting value: line 1 column 1 (char 0)"
MsgNoGetList == "'list' object has no attribute 'get'"
MsgNoGetStr == "'str' object has no attribute 'get'"
MsgNoGetNone == "'NoneType' object has no attribute 'get'"
MsgNoKeysInt == "'int' object has no attribute 'keys'"
MsgNoKeysStr == "'str' object has no attribute 'keys'"
MsgNoKeysList == "'list' object has no attribute 'keys'"
MsgNotIterableNone == "argument of type 'NoneType' is not iterable"
MsgReadTimeout == "Read timed out."
MsgConnRefused == "Connection refused"

(***************************************************************************)
(* Input domains: request bodies sent by the host and outcomes of the      *)
(* upstream call.                                                          *)
(***************************************************************************)
ApiKeys == {"", "k1"}
Endpoints == {"https://alt.example/v1"}
\* JSON null supplied as timeout is stored as None and handed to
\* requests.post as timeout=None (no limit on the wait for the answer; a
\* connect that the system gives up still raises requests.Timeout); it is
\* held as -1.
TimeoutNone == -1

Timeouts == {TimeoutNone}

\* Every mapping over a subset of the three configuration keys.
ConfigMaps ==
    {Update(Update(a, b), c) :
        a \in {EmptyMap} \cup {[api_key |-> x] : x \in ApiKeys},
        b \in {EmptyMap} \cup {[endpoint |-> x] : x \in Endpoints},
        c \in {EmptyMap} \cup {[timeout |-> x] : x \in Timeouts}}

\* Bodies of POST /initialize: a JSON object, JSON null, or a JSON number,
\* string or list.
InitBodies ==
    {JDict(m) : m \in ConfigMaps} \cup {JNull, JNum(5), JStr("abc"), JList(1)}

\* Bodies of POST /chat/completions: an object with or without model and
\* messages (a list of n messages), or JSON null.
CompletionMaps ==
    {Update(a, b) :
        a \in {EmptyMap} \cup {[model |-> JStr(x)] : x \in {"", "gpt-4"}},
        b \in {EmptyMap} \cup {[messages |-> JList(n)] : n \in {0, 1}}}

CompletionBodies == {JDict(m) : m \in CompletionMaps} \cup {JNull}

Statuses == {200, 401, 403, 404, 429, 503}
ContentTypes == {"application/json", "application/json; charset=utf-8"}
Latencies == {0, 12}

NoUp == [kind |-> "none", status |-> 0, ctype |-> "", text |-> "", latency |-> 0]

\* What requests.get / requests.post can produce: a response, requests.Timeout,
\* or another exception (connection failure).
Failures(lats) ==
    {[kind |-> k[1], status |-> 0, ctype |-> "", text |-> k[2], latency |-> l] :
        k \in {<<"timeout", MsgReadTimeout>>, <<"error", MsgConnRefused>>},
        l \in lats}

\* Outcomes of POST <endpoint>/chat/completions.  A body under a content
\* type other than exactly application/json is never parsed on the error
\* path, so one text stands for all of them there.
CompletionOutcomes ==
    {o \in {[kind |-> "response", status |-> s, ctype |-> c, text |-> x,
              latency |-> l] :
                s \in Statuses, c \in ContentTypes, x \in Texts, l \in {12}} :
        o.ctype = "application/json" \/ o.text = TextErrMsg}
    \cup Failures({12})

\* Outcomes of GET <endpoint>/models: only the status is read.
ProbeStatuses == {200, 401, 503}

ProbeOutcomes(lats) ==
    {[kind |-> "response", status |-> s, ctype |-> "application/json",
      text |-> TextEmptyObj, latency |-> l] : s \in ProbeStatuses, l \in lats}
    \cup Failures(lats)

(***************************************************************************)
(* HTTP responses returned to the host.                                    *)
(***************************************************************************)
NoResp ==
    [status |-> 0, type |-> "none", code |-> "", message |-> "",
     transient |-> FALSE, details |-> EmptyMap, healthy |-> FALSE,
     latency_ms |-> 0, body |-> JNull]

\* jsonify({}) with the default status 200 (initialize, cleanup).
EmptyOk == [NoResp EXCEPT !.status = 200, !.type = "empty"]

\* jsonify(METADATA) / jsonify(MODELS): static documents.
StaticOk == [NoResp EXCEPT !.status = 200, !.type = "static"]

\* jsonify({"code":..., "message":..., "transient":...}), status
ErrorResp(status, code, message, transient) ==
    [NoResp EXCEPT !.status = status, !.type = "error", !.code = code,
                   !.message = message, !.transient = transient]

\* jsonify({"healthy":..., "message":..., "latency_ms":...}), status 200
HealthResp(healthy, message, latency) ==
    [NoResp EXCEPT !.status = 200, !.type = "health", !.healthy = healthy,
                   !.message = message, !.latency_ms = latency]

\* Variant of InternalError where the failure leaves the handler and the
\* framework answers with its own 500 page.
InternalError_Unhandled(message) ==
    [NoResp EXCEPT !.status = 500, !.type = "html", !.message = message]

\* The outermost `except Exception as e` of initialize and chat_completions.
InternalError(message) == ErrorResp(500, "internal_error", message, FALSE)

(***************************************************************************)
(* initialize (plugin.py:129-170)                                          *)
(***************************************************************************)
\* new_config = request.json or {}
NewConfig(body) == IF Truthy(body) THEN body.v ELSE EmptyMap

\* list(new_config.keys()) in the log call of line 136 raises AttributeError
\* for every truthy body that is not a mapping, before api_key is looked at.
InitializeRaises(body) == Truthy(body) /\ body.t # "dict"

\* str(e) of that AttributeError.
InitializeRaiseMsg(body) ==
    CASE body.t = "num" -> MsgNoKeysInt
      [] body.t = "str" -> MsgNoKeysStr
      [] OTHER -> MsgNoKeysList

\* Variant of Merge that starts again from the defaults.
Merge_Reset(cfg, new_config) == Update(DefaultConfig, new_config)

\* config.update(new_config)
Merge(cfg, new_config) == Update(cfg, new_config)

\* Variant of MissingApiKey that only rejects an empty mapping.
MissingApiKey_OnlyEmpty(new_config) == DOMAIN new_config = {}

\* The required-field check: 'api_key' not in new_config
MissingApiKey(new_config) == "api_key" \notin DOMAIN new_config

MissingApiKeyResp ==
    ErrorResp(400, "invalid_request", "api_key is required", FALSE)

\* Variant of InitializeResponse in which a failed connection test fails
\* the initialization.
InitializeResponse_Fatal(outcome) ==
    IF outcome.kind = "response" /\ outcome.status = 200
    THEN EmptyOk
    ELSE ErrorResp(500, "internal_error", outcome.text, FALSE)

\* The response of initialize once the connection test has run: the inner
\* try/except only logs, whatever the probe produced.
InitializeResponse(outcome) == EmptyOk

\* Variant of IsInitialized that tests the presence of the key.
IsInitialized_KeyPresent(cfg) == "api_key" \in DOMAIN cfg

\* is_initialized(): the truth value of config.get('api_key')
IsInitialized(cfg) == cfg.api_key # ""

(***************************************************************************)
(* health_check (plugin.py:173-232)                                        *)
(***************************************************************************)
NumModels == 2

\* The early return of an uninitialized plugin.
NotInitializedResp == HealthResp(FALSE, "Not initialized", 0)

\* Variant of HealthResponse that lets a connection failure out as an error.
HealthResponse_Raise(outcome) ==
    CASE outcome.kind = "timeout" ->
            HealthResp(FALSE, "Health check timeout", outcome.latency)
      [] outcome.kind = "error" ->
            ErrorResp(500, "internal_error", outcome.text, FALSE)
      [] outcome.kind = "response" /\ outcome.status = 200 ->
            HealthResp(TRUE, "OK", outcome.latency)
      [] OTHER ->
            HealthResp(FALSE,
                       "Provider returned status " \o ToString(outcome.status),
                       outcome.latency)

\* Variant of HealthResponse that takes any answer of the provider as healthy.
HealthResponse_NoStatusCheck(outcome) ==
    CASE outcome.kind = "timeout" ->
            HealthResp(FALSE, "Health check timeout", outcome.latency)
      [] outcome.kind = "error" ->
            HealthResp(FALSE, outcome.text, outcome.latency)
      [] OTHER ->
            [HealthResp(TRUE, "OK", outcome.latency) EXCEPT
                !.details = [provider_status |-> "connected",
                             models_available |-> NumModels]]

\* The report built from what the ping of <endpoint>/models produced.
HealthResponse(outcome) ==
    CASE outcome.kind = "timeout" ->
            HealthResp(FALSE, "Health check timeout", outcome.latency)
      [] outcome.kind = "error" ->
            HealthResp(FALSE, outcome.text, outcome.latency)
      [] outcome.kind = "response" /\ outcome.status = 200 ->
            [HealthResp(TRUE, "OK", outcome.latency) EXCEPT
                !.details = [provider_status |-> "connected",
                             models_available |-> NumModels]]
      [] OTHER ->
            HealthResp(FALSE,
                       "Provider returned status " \o ToString(outcome.status),
                       outcome.latency)

(***************************************************************************)
(* chat_completions (plugin.py:235-327)                                    *)
(***************************************************************************)
\* Variant of ValidationError that checks messages before model.
ValidationError_MessagesFirst(req_data) ==
    IF ~Truthy(Get(req_data, "messages")) THEN "messages is required"
    ELSE IF ~Truthy(Get(req_data, "model")) THEN "model is required"
    ELSE ""

\* Request validation: the message of the first failing check, "" when the
\* request passes.
ValidationError(req_data) ==
    IF ~Truthy(Get(req_data, "model")) THEN "model is required"
    ELSE IF ~Truthy(Get(req_data, "messages")) THEN "messages is required"
    ELSE ""

\* Variant of ClassifyStatus with a strict comparison at 500.
ClassifyStatus_Above500(status) ==
    IF status = 401 THEN "authentication_failed"
    ELSE IF status = 429 THEN "rate_limit_exceeded"
    ELSE IF status = 404 THEN "model_not_found"
    ELSE IF status > 500 THEN "provider_unavailable"
    ELSE "internal_error"

\* Variant of ClassifyStatus that treats 403 like 401.
ClassifyStatus_403Auth(status) ==
    IF status \in {401, 403} THEN "authentication_failed"
    ELSE IF status = 429 THEN "rate_limit_exceeded"
    ELSE IF status = 404 THEN "model_not_found"
    ELSE IF status >= 500 THEN "provider_unavailable"
    ELSE "internal_error"

\* Map HTTP status to plugin error code.
ClassifyStatus(status) ==
    IF status = 401 THEN "authentication_failed"
    ELSE IF status = 429 THEN "rate_limit_exceeded"
    ELSE IF status = 404 THEN "model_not_found"
    ELSE IF status >= 500 THEN "provider_unavailable"
    ELSE "internal_error"

\* Variant of Transient that leaves provider_unavailable out of the list.
Transient_NoProvider(code) == code \in {"rate_limit_exceeded", "timeout"}

\* code in ["rate_limit_exceeded", "provider_unavailable", "timeout"]
Transient(code) ==
    code \in {"rate_limit_exceeded", "provider_unavailable", "timeout"}

\* error_body = resp.json() if content-type == 'application/json' else {}
\* error_msg = error_body.get('error', {}).get('message', resp.text)
\* ok is FALSE when one of these steps raises; val is then str(e).
ErrorMessage(outcome) ==
    LET error_body ==
            IF outcome.ctype = "application/json"
            THEN JsonLoads(outcome.text) ELSE JDict(EmptyMap)
        err ==
            IF "error" \in DOMAIN error_body.v
            THEN error_body.v.error ELSE JDict(EmptyMap)
    IN  IF error_body.t = "invalid" THEN [ok |-> FALSE, val |-> MsgJsonDecode]
        ELSE IF error_body.t = "list" THEN [ok |-> FALSE, val |-> MsgNoGetList]
        ELSE IF err.t = "str" THEN [ok |-> FALSE, val |-> MsgNoGetStr]
        ELSE [ok |-> TRUE,
              val |-> IF "message" \in DOMAIN err.v
                      THEN err.v.message.v ELSE outcome.text]

\* cost_per_token = 0.00003, held in units of 10^-5 USD.
CostPerTokenE5 == 3

\* `'total_tokens' in result['usage']` raises TypeError when the upstream
\* body carries "usage": null.
CostRaises(result) ==
    /\ result.t = "dict"
    /\ "usage" \in DOMAIN result.v
    /\ result.v.usage.t = "null"

\* Add cost calculation: result['usage']['cost_usd'] = tokens * cost_per_token
CostAugment(result) ==
    IF result.t = "dict" /\ "usage" \in DOMAIN result.v
       /\ "total_tokens" \in DOMAIN result.v.usage.v
    THEN JDict(Update(result.v,
            [usage |-> JDict(Update(result.v.usage.v,
                [cost_usd_e5 |->
                    JNum(result.v.usage.v.total_tokens.v * CostPerTokenE5)]))]))
    ELSE result

\* Variant of CompletionResponse without the `except requests.Timeout`
\* clause: a timeout falls through to the general handler.
CompletionResponse_NoTimeoutClause(outcome) ==
    CASE outcome.kind \in {"timeout", "error"} -> InternalError(outcome.text)
      [] outcome.kind = "response" /\ outcome.status = 200 ->
            IF JsonLoads(outcome.text).t = "invalid"
            THEN InternalError(MsgJsonDecode)
            ELSE IF CostRaises(JsonLoads(outcome.text))
            THEN InternalError(MsgNotIterableNone)
            ELSE [NoResp EXCEPT !.status = 200, !.type = "completion",
                                !.body = CostAugment(JsonLoads(outcome.text))]
      [] OTHER ->
            IF ~ErrorMessage(outcome).ok
            THEN InternalError(ErrorMessage(outcome).val)
            ELSE [ErrorResp(outcome.status, ClassifyStatus(outcome.status),
                            ErrorMessage(outcome).val,
                            Transient(ClassifyStatus(outcome.status)))
                  EXCEPT !.details = [status_code |-> outcome.status,
                                      latency_ms |-> outcome.latency]]

\* The response built from what the POST to <endpoint>/chat/completions
\* produced (plugin.py:272-327).
CompletionResponse(outcome) ==
    CASE outcome.kind = "timeout" ->
            ErrorResp(504, "timeout", "Request timeout", TRUE)
      [] outcome.kind = "error" -> InternalError(outcome.text)
      [] outcome.kind = "response" /\ outcome.status = 200 ->
            IF JsonLoads(outcome.text).t = "invalid"
            THEN InternalError(MsgJsonDecode)
            ELSE IF CostRaises(JsonLoads(outcome.text))
            THEN InternalError(MsgNotIterableNone)
            ELSE [NoResp EXCEPT !.status = 200, !.type = "completion",
                                !.body = CostAugment(JsonLoads(outcome.text))]
      [] OTHER ->
            IF ~ErrorMessage(outcome).ok
            THEN InternalError(ErrorMessage(outcome).val)
            ELSE [ErrorResp(outcome.status, ClassifyStatus(outcome.status),
                            ErrorMessage(outcome).val,
                            Transient(ClassifyStatus(outcome.status)))
                  EXCEPT !.details = [status_code |-> outcome.status,
                                      latency_ms |-> outcome.latency]]

(***************************************************************************)
(* State machine.  A handler runs as a sequence of steps, one per access   *)
(* to the shared dictionary and one for its upstream call; the steps of    *)
(* the two workers interleave freely.                                      *)
(***************************************************************************)
NoLoc == [api_key |-> "", endpoint |-> "", timeout |-> 0]

Init ==
    /\ config = DefaultConfig
    /\ pc = [w \in Workers |-> "idle"]
    /\ op = [w \in Workers |-> "none"]
    /\ req = [w \in Workers |-> JNull]
    /\ loc = [w \in Workers |-> NoLoc]
    /\ snap = [w \in Workers |-> {}]
    /\ up = [w \in Workers |-> NoUp]
    /\ resp = [w \in Workers |-> NoResp]
    /\ calls = [w \in Workers |-> 0]
    /\ status_in = MinStatus
    /\ kind_out = ""

\* A finished handler holds no shared state: its response goes out before
\* any worker's next step, which loses no interleaving of the accesses to
\* config.
NoneDone == \A w \in Workers : pc[w] # "done"

\* Worker w is at position `label` of its handler and may take a step.
At(w, label) == pc[w] = label /\ NoneDone

\* Worker w starts handler `name` on request body `body`.
Begin(w, name, body) ==
    /\ At(w, "idle")
    /\ op' = [op EXCEPT ![w] = name]
    /\ req' = [req EXCEPT ![w] = body]

\* Worker w returns response r.
Return(w, r) ==
    /\ pc' = [pc EXCEPT ![w] = "done"]
    /\ resp' = [resp EXCEPT ![w] = r]

\* The configuration keys a worker has read so far for the upstream request
\* it is building and has not finished.
ReadSoFar(w) ==
    CASE pc[w] = "h_key" -> {"endpoint"}
      [] pc[w] = "c_url" -> {"api_key"}
      [] pc[w] = "c_tmo" -> {"api_key", "endpoint"}
      [] OTHER -> {}

\* Workers between the first and the last configuration read of a completion
\* or health request, the requests whose history is kept.
Reading(w) == pc[w] \in {"h_key", "c_url", "c_tmo"}

\* History: snap[w] holds the Config states that existed since worker w's
\* first read and agree with everything w has read so far.  cfg is a state
\* Config has just taken.
Observe(w, cfg) ==
    IF Reading(w) /\ \A k \in ReadSoFar(w) : cfg[k] = loc[w][k]
    THEN snap[w] \cup {cfg} ELSE snap[w]

\* GET /metadata, GET /models, POST /cleanup: no state is touched.
GetMetadata(w) ==
    /\ Begin(w, "metadata", JNull)
    /\ Return(w, StaticOk)
    /\ UNCHANGED <<config, loc, snap, up, calls, status_in, kind_out>>

GetModels(w) ==
    /\ Begin(w, "models", JNull)
    /\ Return(w, StaticOk)
    /\ UNCHANGED <<config, loc, snap, up, calls, status_in, kind_out>>

\* Variant of Cleanup that puts the defaults back.
Cleanup_Reset(w) ==
    /\ Begin(w, "cleanup", JNull)
    /\ Return(w, EmptyOk)
    /\ config' = DefaultConfig
    /\ UNCHANGED <<loc, snap, up, calls, status_in, kind_out>>

\* POST /cleanup: logs and returns {}.
Cleanup(w) ==
    /\ Begin(w, "cleanup", JNull)
    /\ Return(w, EmptyOk)
    /\ UNCHANGED <<config, loc, snap, up, calls, status_in, kind_out>>

\* POST /initialize, up to and including config.update(new_config).
I_Start(w, body) ==
    /\ Begin(w, "initialize", body)
    /\ IF InitializeRaises(body)
       THEN /\ Return(w, InternalError(InitializeRaiseMsg(body)))
            /\ UNCHANGED <<config, snap>>
       ELSE IF MissingApiKey(NewConfig(body))
       THEN /\ Return(w, MissingApiKeyResp)
            /\ UNCHANGED <<config, snap>>
       ELSE /\ config' = Merge(config, NewConfig(body))
            /\ pc' = [pc EXCEPT ![w] = "i_url"]
            /\ snap' = [x \in Workers |-> Observe(x, config')]
            /\ UNCHANGED resp
    /\ UNCHANGED <<loc, up, calls, status_in, kind_out>>

\* Test connection: f"{config['endpoint']}/models"
I_ReadUrl(w) ==
    /\ At(w, "i_url")
    /\ loc' = [loc EXCEPT ![w].endpoint = config.endpoint]
    /\ pc' = [pc EXCEPT ![w] = "i_key"]
    /\ UNCHANGED <<config, op, req, snap, up, resp, calls, status_in, kind_out>>

\* f"Bearer {config['api_key']}", timeout=5
I_ReadKey(w) ==
    /\ At(w, "i_key")
    /\ loc' = [loc EXCEPT ![w].api_key = config.api_key,
                          ![w].timeout = ProbeTimeout]
    /\ pc' = [pc EXCEPT ![w] = "i_call"]
    /\ UNCHANGED <<config, op, req, snap, up, resp, calls, status_in, kind_out>>

\* requests.get(...) of the connection test, and the return.
I_Call(w, outcome) ==
    /\ At(w, "i_call")
    /\ calls' = [calls EXCEPT ![w] = @ + 1]
    /\ up' = [up EXCEPT ![w] = outcome]
    /\ loc' = [loc EXCEPT ![w] = NoLoc]
    /\ Return(w, InitializeResponse(outcome))
    /\ UNCHANGED <<config, op, req, snap, status_in, kind_out>>

\* GET /health, up to the initialization check `not config.get('api_key')`.
H_Start(w) ==
    /\ Begin(w, "health", JNull)
    /\ IF ~IsInitialized(config)
       THEN Return(w, NotInitializedResp)
       ELSE /\ pc' = [pc EXCEPT ![w] = "h_url"]
            /\ UNCHANGED resp
    /\ UNCHANGED <<config, loc, snap, up, calls, status_in, kind_out>>

\* Ping provider: f"{config['endpoint']}/models"
H_ReadUrl(w) ==
    /\ At(w, "h_url")
    /\ loc' = [loc EXCEPT ![w].endpoint = config.endpoint]
    /\ snap' = [snap EXCEPT ![w] = {config}]
    /\ pc' = [pc EXCEPT ![w] = "h_key"]
    /\ UNCHANGED <<config, op, req, up, resp, calls, status_in, kind_out>>

\* f"Bearer {config['api_key']}", timeout=5
H_ReadKey(w) ==
    /\ At(w, "h_key")
    /\ loc' = [loc EXCEPT ![w].api_key = config.api_key,
                          ![w].timeout = ProbeTimeout]
    /\ snap' = [snap EXCEPT ![w] = {c \in @ : c.api_key = config.api_key}]
    /\ pc' = [pc EXCEPT ![w] = "h_call"]
    /\ UNCHANGED <<config, op, req, up, resp, calls, status_in, kind_out>>

\* requests.get(...) of the ping, and the report.
H_Call(w, outcome) ==
    /\ At(w, "h_call")
    /\ calls' = [calls EXCEPT ![w] = @ + 1]
    /\ up' = [up EXCEPT ![w] = outcome]
    /\ loc' = [loc EXCEPT ![w] = NoLoc]
    /\ snap' = [snap EXCEPT ![w] = {}]
    /\ Return(w, HealthResponse(outcome))
    /\ UNCHANGED <<config, op, req, status_in, kind_out>>

\* Variant of C_Start with an initialization guard after validation.
C_Start_Guarded(w, body) ==
    /\ Begin(w, "completion", body)
    /\ IF body.t # "dict"
       THEN Return(w, InternalError(MsgNoGetNone))
       ELSE IF ValidationError(body.v) # ""
       THEN Return(w, ErrorResp(400, "invalid_request",
                                ValidationError(body.v), FALSE))
       ELSE IF ~IsInitialized(config)
       THEN Return(w, ErrorResp(400, "invalid_request", "Not initialized",
                                FALSE))
       ELSE /\ pc' = [pc EXCEPT ![w] = "c_key"]
            /\ UNCHANGED resp
    /\ UNCHANGED <<config, loc, snap, up, calls, status_in, kind_out>>

\* POST /chat/completions, up to the end of request validation.
C_Start(w, body) ==
    /\ Begin(w, "completion", body)
    /\ IF body.t # "dict"
       THEN Return(w, InternalError(MsgNoGetNone))
       ELSE IF ValidationError(body.v) # ""
       THEN Return(w, ErrorResp(400, "invalid_request",
                                ValidationError(body.v), FALSE))
       ELSE /\ pc' = [pc EXCEPT ![w] = "c_key"]
            /\ UNCHANGED resp
    /\ UNCHANGED <<config, loc, snap, up, calls, status_in, kind_out>>

\* headers: f"Bearer {config['api_key']}"
C_ReadKey(w) ==
    /\ At(w, "c_key")
    /\ loc' = [loc EXCEPT ![w].api_key = config.api_key]
    /\ snap' = [snap EXCEPT ![w] = {config}]
    /\ pc' = [pc EXCEPT ![w] = "c_url"]
    /\ UNCHANGED <<config, op, req, up, resp, calls, status_in, kind_out>>

\* f"{config['endpoint']}/chat/completions"
C_ReadUrl(w) ==
    /\ At(w, "c_url")
    /\ loc' = [loc EXCEPT ![w].endpoint = config.endpoint]
    /\ snap' = [snap EXCEPT ![w] = {c \in @ : c.endpoint = config.endpoint}]
    /\ pc' = [pc EXCEPT ![w] = "c_tmo"]
    /\ UNCHANGED <<config, op, req, up, resp, calls, status_in, kind_out>>

\* timeout=config.get('timeout', 30)
C_ReadTimeout(w) ==
    /\ At(w, "c_tmo")
    /\ LET timeout == IF "timeout" \in DOMAIN config
                      THEN config.timeout ELSE DefaultTimeout
       IN  /\ loc' = [loc EXCEPT ![w].timeout = timeout]
           /\ snap' = [snap EXCEPT ![w] = {c \in @ : c.timeout = timeout}]
    /\ pc' = [pc EXCEPT ![w] = "c_call"]
    /\ UNCHANGED <<config, op, req, up, resp, calls, status_in, kind_out>>

\* Variant of C_Call that posts a second time after a failed attempt.
C_Call_Retry(w, outcome) ==
    /\ At(w, "c_call")
    /\ calls' = [calls EXCEPT ![w] = IF outcome.kind = "response"
                                      THEN @ + 1 ELSE @ + 2]
    /\ up' = [up EXCEPT ![w] = outcome]
    /\ loc' = [loc EXCEPT ![w] = NoLoc]
    /\ snap' = [snap EXCEPT ![w] = {}]
    /\ Return(w, CompletionResponse(outcome))
    /\ UNCHANGED <<config, op, req, status_in, kind_out>>

\* requests.post(...), and the response built from its outcome.
C_Call(w, outcome) ==
    /\ At(w, "c_call")
    /\ calls' = [calls EXCEPT ![w] = @ + 1]
    /\ up' = [up EXCEPT ![w] = outcome]
    /\ loc' = [loc EXCEPT ![w] = NoLoc]
    /\ snap' = [snap EXCEPT ![w] = {}]
    /\ Return(w, CompletionResponse(outcome))
    /\ UNCHANGED <<config, op, req, status_in, kind_out>>

\* requests.post(..., timeout=None) to an upstream that never answers: the
\* call never returns and raises nothing.
C_Block(w) ==
    /\ At(w, "c_call")
    /\ loc[w].timeout = TimeoutNone
    /\ calls' = [calls EXCEPT ![w] = @ + 1]
    /\ loc' = [loc EXCEPT ![w] = NoLoc]
    /\ snap' = [snap EXCEPT ![w] = {}]
    /\ pc' = [pc EXCEPT ![w] = "blocked"]
    /\ UNCHANGED <<config, op, req, up, resp, status_in, kind_out>>

\* The response of worker w goes out to the host and the worker is free for
\* the next request.
Deliver(w) ==
    /\ pc[w] = "done"
    /\ pc' = [pc EXCEPT ![w] = "idle"]
    /\ op' = [op EXCEPT ![w] = "none"]
    /\ req' = [req EXCEPT ![w] = JNull]
    /\ up' = [up EXCEPT ![w] = NoUp]
    /\ resp' = [resp EXCEPT ![w] = NoResp]
    /\ calls' = [calls EXCEPT ![w] = 0]
    /\ UNCHANGED <<config, loc, snap, status_in, kind_out>>

Next ==
    \/ \E w \in Workers : GetMetadata(w)
    \/ \E w \in Workers : GetModels(w)
    \/ \E w \in Workers : Cleanup(w)
    \/ \E w \in Workers, body \in InitBodies : I_Start(w, body)
    \/ \E w \in Workers, outcome \in ProbeOutcomes({0}) : I_Call(w, outcome)
    \/ \E w \in Workers : I_ReadUrl(w)
    \/ \E w \in Workers : I_ReadKey(w)
    \/ \E w \in Workers : H_Start(w)
    \/ \E w \in Workers : H_ReadUrl(w)
    \/ \E w \in Workers : H_ReadKey(w)
    \/ \E w \in Workers, outcome \in ProbeOutcomes(Latencies) : H_Call(w, outcome)
    \/ \E w \in Workers, body \in CompletionBodies : C_Start(w, body)
    \/ \E w \in Workers : C_ReadKey(w)
    \/ \E w \in Workers : C_ReadUrl(w)
    \/ \E w \in Workers : C_ReadTimeout(w)
    \/ \E w \in Workers, outcome \in CompletionOutcomes : C_Call(w, outcome)
    \/ \E w \in Workers : C_Block(w)
    \/ \E w \in Workers : Deliver(w)

Spec == Init /\ [][Next]_vars

(***************************************************************************)
(* The status classifier on its own, over every status of the range.       *)
(***************************************************************************)
InitClassify ==
    /\ config = DefaultConfig
    /\ pc = [w \in Workers |-> "idle"]
    /\ op = [w \in Workers |-> "none"]
    /\ req = [w \in Workers |-> JNull]
    /\ loc = [w \in Workers |-> NoLoc]
    /\ snap = [w \in Workers |-> {}]
    /\ up = [w \in Workers |-> NoUp]
    /\ resp = [w \in Workers |-> NoResp]
    /\ calls = [w \in Workers |-> 0]
    /\ status_in \in (MinStatus .. MaxStatus) \ {200}
    /\ kind_out = ""

Classify ==
    /\ kind_out = ""
    /\ kind_out' = ClassifyStatus(status_in)
    /\ UNCHANGED <<config, pc, op, req, loc, snap, up, resp, calls, status_in>>

NextClassify == Classify

SpecClassify == InitClassify /\ [][NextClassify]_vars

(***************************************************************************)
(* Properties.                                                             *)
(***************************************************************************)
\* Worker w has just returned the response of handler `name`.
Returned(w, name) == pc[w] = "done" /\ op[w] = name

\* The request body of worker w is a mapping that has key k.
HasKey(body, k) == body.t = "dict" /\ k \in DOMAIN body.v

\* C1: every upstream request built by a completion or a health call uses
\* api_key, endpoint and timeout values that all belong to one single Config
\* state among those that existed while the request was built, never a mix
\* of two Config states.
C1_NoTornRequest ==
    \A w \in Workers :
        /\ pc[w] = "c_call" =>
              \E c \in snap[w] : /\ c.api_key = loc[w].api_key
                                 /\ c.endpoint = loc[w].endpoint
                                 /\ c.timeout = loc[w].timeout
        /\ pc[w] = "h_call" =>
              \E c \in snap[w] : /\ c.api_key = loc[w].api_key
                                 /\ c.endpoint = loc[w].endpoint

\* C2: initialize on a mapping without the key api_key returns 400
\* invalid_request (transient false, "api_key is required") in the step that
\* receives it, leaves Config as it was and makes no connectivity probe.
C2_MissingApiKeyRejected ==
    [][\A w \in Workers :
        (/\ pc[w] = "idle"
         /\ op'[w] = "initialize"
         /\ req'[w].t = "dict"
         /\ "api_key" \notin DOMAIN req'[w].v)
        => /\ pc'[w] = "done"
           /\ resp'[w].status = 400
           /\ resp'[w].type = "error"
           /\ resp'[w].code = "invalid_request"
           /\ resp'[w].transient = FALSE
           /\ resp'[w].message = "api_key is required"
           /\ config' = config
           /\ calls'[w] = 0]_vars

C2_Witness ==
    \E w \in Workers :
        /\ Returned(w, "initialize")
        /\ req[w].t = "dict"
        /\ DOMAIN req[w].v = {"endpoint", "timeout"}
        /\ resp[w].code = "invalid_request"

\* C3: initialize on a mapping with a non-empty api_key makes Config
\* initialized by its merge and returns 200 with an empty body whatever its
\* connectivity probe produced.
C3_InitializeSucceeds ==
    [][\A w \in Workers :
        /\ (/\ pc[w] = "idle"
            /\ op'[w] = "initialize"
            /\ HasKey(req'[w], "api_key")
            /\ req'[w].v.api_key # "")
           => /\ pc'[w] = "i_url"
              /\ config'.api_key # ""
        /\ (/\ pc'[w] = "done"
            /\ op'[w] = "initialize"
            /\ HasKey(req'[w], "api_key")
            /\ req'[w].v.api_key # "")
           => /\ resp'[w].status = 200
              /\ resp'[w].type = "empty"]_vars

C3_Witness ==
    \E w \in Workers :
        /\ Returned(w, "initialize")
        /\ HasKey(req[w], "api_key")
        /\ req[w].v.api_key = "k1"
        /\ up[w].kind = "error"
        /\ resp[w].status = 200

\* C4: a health check that starts while Config's api_key is empty returns
\* the report healthy false, "Not initialized", latency_ms 0 (status 200)
\* and makes no network call.
C4_HealthNotInitialized ==
    [][\A w \in Workers :
        (/\ pc[w] = "idle"
         /\ op'[w] = "health"
         /\ config.api_key = "")
        => /\ pc'[w] = "done"
           /\ resp'[w].status = 200
           /\ resp'[w].type = "health"
           /\ resp'[w].healthy = FALSE
           /\ resp'[w].message = "Not initialized"
           /\ resp'[w].latency_ms = 0
           /\ calls'[w] = 0
           /\ up'[w] = NoUp]_vars

C4_Witness ==
    \E w \in Workers :
        /\ Returned(w, "health")
        /\ config.api_key = ""
        /\ resp[w].message = "Not initialized"
        /\ calls[w] = 0

\* C5: a completion request without a non-empty model is rejected with 400
\* invalid_request "model is required" whatever its messages; one with a
\* model and without non-empty messages is rejected with 400 invalid_request
\* "messages is required".
C5_ValidationOrder ==
    \A w \in Workers :
        (Returned(w, "completion") /\ req[w].t = "dict") =>
            LET noModel ==
                    ~HasKey(req[w], "model") \/ req[w].v.model.v = ""
                noMessages ==
                    ~HasKey(req[w], "messages") \/ req[w].v.messages.v = 0
            IN  /\ noModel =>
                      /\ resp[w].status = 400
                      /\ resp[w].code = "invalid_request"
                      /\ resp[w].message = "model is required"
                /\ (~noModel /\ noMessages) =>
                      /\ resp[w].status = 400
                      /\ resp[w].code = "invalid_request"
                      /\ resp[w].message = "messages is required"

C5_Witness ==
    \E w \in Workers :
        /\ Returned(w, "completion")
        /\ req[w].t = "dict"
        /\ DOMAIN req[w].v = {}
        /\ resp[w].message = "model is required"

\* The body text carries a nested error message: {"error":{"message":...}}.
HasNestedMessage(text) ==
    /\ JsonLoads(text).t = "dict"
    /\ "error" \in DOMAIN JsonLoads(text).v
    /\ JsonLoads(text).v.error.t = "dict"
    /\ "message" \in DOMAIN JsonLoads(text).v.error.v

\* C6: for every upstream completion response with a status other than 200
\* the adapter returns an error whose HTTP status is the upstream status,
\* whose message is the body's nested error message when the body has one
\* and the raw response text otherwise, and whose details carry that
\* status_code.
C6_UpstreamErrorPreserved ==
    \A w \in Workers :
        (/\ Returned(w, "completion")
         /\ up[w].kind = "response"
         /\ up[w].status # 200)
        => /\ resp[w].type = "error"
           /\ resp[w].status = up[w].status
           /\ resp[w].message =
                 IF HasNestedMessage(up[w].text)
                 THEN JsonLoads(up[w].text).v.error.v.message.v
                 ELSE up[w].text
           /\ "status_code" \in DOMAIN resp[w].details
           /\ resp[w].details.status_code = up[w].status

\* C7: the classifier gives every status of the range other than 200 exactly
\* the kind of the table: 401 authentication_failed, 429
\* rate_limit_exceeded, 404 model_not_found, 500 and above
\* provider_unavailable, anything else internal_error.
C7_ClassifierTable ==
    kind_out # "" =>
        /\ kind_out \in ErrorKinds
        /\ status_in = 401 <=> kind_out = "authentication_failed"
        /\ status_in = 429 <=> kind_out = "rate_limit_exceeded"
        /\ status_in = 404 <=> kind_out = "model_not_found"
        /\ status_in >= 500 <=> kind_out = "provider_unavailable"
        /\ (status_in < 500 /\ status_in \notin {401, 404, 429})
              <=> kind_out = "internal_error"

C7_Witness == status_in = 500 /\ kind_out = "provider_unavailable"

\* The (status, code) pairs that the interface table lists for failures of
\* POST /chat/completions.
ListedFailure(r) ==
    \/ r.status = 400 /\ r.code = "invalid_request"
    \/ r.status = 401 /\ r.code = "authentication_failed"
    \/ r.status = 404 /\ r.code = "model_not_found"
    \/ r.status = 429 /\ r.code = "rate_limit_exceeded"
    \/ r.status \in 500 .. 599 /\ r.code = "provider_unavailable"
    \/ r.status = 504 /\ r.code = "timeout"
    \/ r.status = 500 /\ r.code = "internal_error"

\* C8 as stated: every failure response of POST /chat/completions carries
\* one of the listed (status, code) pairs.
C8_OnlyListedFailures ==
    \A w \in Workers :
        (Returned(w, "completion") /\ resp[w].type = "error")
        => ListedFailure(resp[w])

\* C8 as amended: every failure response of POST /chat/completions carries
\* one of the listed (status, code) pairs, or internal_error with the
\* upstream's own status when the upstream answered with a status below 500
\* other than 200, 401, 404 and 429.
C8_FailurePairs ==
    \A w \in Workers :
        (Returned(w, "completion") /\ resp[w].type = "error")
        => \/ ListedFailure(resp[w])
           \/ /\ resp[w].code = "internal_error"
              /\ up[w].kind = "response"
              /\ resp[w].status = up[w].status
              /\ up[w].status < 500
              /\ up[w].status \notin {200, 401, 404, 429}

C8_Witness ==
    \E w \in Workers :
        /\ Returned(w, "completion")
        /\ up[w].kind = "response"
        /\ up[w].status = 403
        /\ resp[w].status = 403
        /\ resp[w].code = "internal_error"

\* C9: every error response of any handler has a code of the closed
\* taxonomy and is marked transient exactly when the code is
\* rate_limit_exceeded, provider_unavailable or timeout.
C9_TransientFlag ==
    \A w \in Workers :
        (pc[w] = "done" /\ resp[w].type = "error")
        => /\ resp[w].code \in ErrorKinds
           /\ resp[w].transient <=>
                 resp[w].code \in {"rate_limit_exceeded",
                                   "provider_unavailable", "timeout"}

C9_Witness ==
    \E w \in Workers :
        /\ Returned(w, "completion")
        /\ resp[w].code = "provider_unavailable"
        /\ resp[w].transient

\* C10: every health check returns a report with status 200, healthy or
\* not, whatever the ping produced; it never returns an error response.
C10_HealthAlwaysReport ==
    \A w \in Workers :
        Returned(w, "health")
        => /\ resp[w].status = 200
           /\ resp[w].type = "health"
           /\ resp[w].code = ""
           /\ resp[w].healthy <=>
                 (up[w].kind = "response" /\ up[w].status = 200)

C10_Witness ==
    \E w \in Workers :
        /\ Returned(w, "health")
        /\ up[w].kind = "error"
        /\ resp[w].status = 200
        /\ ~resp[w].healthy

\* C11: when the upstream completion call times out the handler returns
\* 504 with code timeout, message "Request timeout" and transient true, and
\* no other path of any handler produces the code timeout.
C11_TimeoutPath ==
    \A w \in Workers :
        pc[w] = "done" =>
            /\ (op[w] = "completion" /\ up[w].kind = "timeout") =>
                  /\ resp[w].status = 504
                  /\ resp[w].type = "error"
                  /\ resp[w].code = "timeout"
                  /\ resp[w].message = "Request timeout"
                  /\ resp[w].transient = TRUE
            /\ resp[w].code = "timeout" =>
                  (op[w] = "completion" /\ up[w].kind = "timeout")

C11_Witness ==
    \E w \in Workers :
        /\ Returned(w, "completion")
        /\ up[w].kind = "timeout"
        /\ resp[w].status = 504
        /\ resp[w].code = "timeout"

\* C12: for every upstream 200 response with a decodable body, the returned
\* body carries usage.cost_usd = total_tokens * 0.00003 when usage.total_tokens
\* is present (1000 tokens give 0.03, held as 3000 * 10^-5) with every other
\* field equal to the upstream body, and when usage or usage.total_tokens is
\* absent the upstream body is returned unchanged.
HasTotalTokens(b) ==
    /\ b.t = "dict"
    /\ "usage" \in DOMAIN b.v
    /\ b.v.usage.t = "dict"
    /\ "total_tokens" \in DOMAIN b.v.usage.v

C12_CostAugmented ==
    \A w \in Workers :
        ( /\ Returned(w, "completion")
          /\ up[w].kind = "response"
          /\ up[w].status = 200
          /\ JsonLoads(up[w].text).t # "invalid" ) =>
            LET b == JsonLoads(up[w].text)
                r == resp[w]
            IN  /\ r.status = 200
                /\ r.type = "completion"
                /\ IF HasTotalTokens(b)
                   THEN /\ r.body.t = "dict"
                        /\ DOMAIN r.body.v = DOMAIN b.v
                        /\ \A k \in DOMAIN b.v \ {"usage"} :
                               r.body.v[k] = b.v[k]
                        /\ DOMAIN r.body.v.usage.v =
                               DOMAIN b.v.usage.v \cup {"cost_usd_e5"}
                        /\ \A k \in DOMAIN b.v.usage.v :
                               r.body.v.usage.v[k] = b.v.usage.v[k]
                        /\ r.body.v.usage.v.cost_usd_e5 =
                               JNum(b.v.usage.v.total_tokens.v * 3)
                   ELSE r.body = b

\* C13: no failure inside initialize or completion escapes the handler: a
\* non-mapping request body, an undecodable upstream body or any other
\* exception of the upstream call is answered with 500 internal_error,
\* transient false, and every returned operation carries a response.
UnexpectedFailure(w) ==
    \/ op[w] = "initialize" /\ req[w].t \notin {"dict", "null"}
    \/ op[w] = "completion" /\ req[w].t # "dict"
    \/ op[w] = "completion" /\ up[w].kind = "error"
    \/ /\ op[w] = "completion"
       /\ up[w].kind = "response"
       /\ up[w].status = 200 \/ up[w].ctype = "application/json"
       /\ JsonLoads(up[w].text).t = "invalid"

C13_NoFailureEscapes ==
    \A w \in Workers :
        pc[w] = "done" =>
            /\ resp[w].type \in {"empty", "static", "error", "health",
                                 "completion"}
            /\ resp[w].status \in 200..599
            /\ UnexpectedFailure(w) =>
                  /\ resp[w].status = 500
                  /\ resp[w].type = "error"
                  /\ resp[w].code = "internal_error"
                  /\ resp[w].transient = FALSE

C13_Witness ==
    \E w \in Workers :
        /\ Returned(w, "initialize")
        /\ req[w].t = "num"
        /\ resp[w].status = 500
        /\ resp[w].code = "internal_error"

\* C14: a successful initialize merges: in the step that stores the mapping
\* every supplied key takes the supplied value, every other key keeps the
\* value it had, and storing the same mapping again changes nothing.
C14_MergeNotReset ==
    [][\A w \in Workers :
        (/\ pc[w] = "idle"
         /\ op'[w] = "initialize"
         /\ HasKey(req'[w], "api_key"))
        => /\ pc'[w] = "i_url"
           /\ DOMAIN config' = DOMAIN config \cup DOMAIN req'[w].v
           /\ \A k \in DOMAIN config' :
                 config'[k] = IF k \in DOMAIN req'[w].v
                              THEN req'[w].v[k] ELSE config[k]
           /\ Merge(config', req'[w].v) = config']_vars

C14_Witness ==
    \E w \in Workers :
        /\ pc[w] = "i_url"
        /\ DOMAIN req[w].v = {"api_key"}
        /\ config.api_key = req[w].v.api_key
        /\ config.endpoint # DefaultEndpoint
        /\ config.timeout # DefaultTimeout

\* C15: Config is changed only by initialize: a step that changes it is the
\* step of an initialize call storing its mapping; health, completion,
\* metadata, models and cleanup leave every field as it was, and an
\* initialized adapter is still initialized after cleanup.
C15_OnlyInitializeWrites ==
    [][/\ config' # config =>
             \E w \in Workers : pc[w] = "idle" /\ op'[w] = "initialize"
       /\ \A w \in Workers :
             (op[w] \in {"health", "completion"} /\ pc'[w] # pc[w])
                 => config' = config
       /\ \A w \in Workers :
             (pc[w] = "idle"
                 /\ op'[w] \in {"health", "completion", "metadata", "models",
                                "cleanup"})
                 => /\ config' = config
                    /\ IsInitialized(config) => IsInitialized(config')]_vars

C15_Witness ==
    \E w \in Workers :
        /\ Returned(w, "cleanup")
        /\ IsInitialized(config)
        /\ config.endpoint # DefaultEndpoint

\* C16: a health check reports healthy true exactly when the adapter was
\* initialized at the check and the model-listing call returned 200; another
\* status gives healthy false "Provider returned status <code>", a timeout
\* "Health check timeout", any other failure its description.
C16_HealthyExactly ==
    [][\A w \in Workers :
        /\ (pc[w] = "idle" /\ op'[w] = "health") =>
              IF config.api_key # ""
              THEN pc'[w] = "h_url"
              ELSE /\ pc'[w] = "done"
                   /\ resp'[w].healthy = FALSE
        /\ (pc'[w] = "done" /\ op'[w] = "health") =>
              /\ resp'[w].healthy <=>
                    (up'[w].kind = "response" /\ up'[w].status = 200)
              /\ (up'[w].kind = "response" /\ up'[w].status = 401) =>
                    resp'[w].message = "Provider returned status 401"
              /\ (up'[w].kind = "response" /\ up'[w].status = 503) =>
                    resp'[w].message = "Provider returned status 503"
              /\ up'[w].kind = "timeout" =>
                    resp'[w].message = "Health check timeout"
              /\ up'[w].kind = "error" =>
                    resp'[w].message = up'[w].text]_vars

C16_Witness ==
    \E w \in Workers :
        /\ Returned(w, "health")
        /\ up[w].kind = "response"
        /\ up[w].status = 200
        /\ resp[w].healthy

\* C17: completion has no initialization guard: a request that passes
\* validation goes on to build and send the upstream request whatever
\* api_key holds, and an error it returns comes from the upstream call.
ValidRequest(body) ==
    /\ HasKey(body, "model")
    /\ body.v.model.v # ""
    /\ HasKey(body, "messages")
    /\ body.v.messages.v # 0

C17_NoLocalGuard ==
    [][\A w \in Workers :
        /\ (pc[w] = "idle" /\ op'[w] = "completion" /\ ValidRequest(req'[w]))
              => pc'[w] = "c_key"
        /\ pc[w] \in {"c_key", "c_url", "c_tmo"} => pc'[w] # "done"
        /\ (pc'[w] = "done" /\ op'[w] = "completion" /\ ValidRequest(req'[w]))
              => /\ up'[w].kind # "none"
                 /\ calls'[w] = 1]_vars

C17_Witness ==
    \E w \in Workers :
        /\ pc[w] = "c_call"
        /\ ValidRequest(req[w])
        /\ config.api_key = ""
        /\ loc[w].api_key = ""
        /\ loc[w].endpoint # ""

\* C18: an operation makes at most one upstream call and never repeats it:
\* a completion none when validation fails and one otherwise, a health check
\* none when uninitialized and one otherwise, an initialize none when api_key
\* is missing and one otherwise.
C18_AtMostOneCall ==
    [][\A w \in Workers :
        /\ calls'[w] <= 1
        /\ (pc'[w] = "done" /\ pc[w] # "done") =>
              calls'[w] =
                 CASE op'[w] = "completion" ->
                        IF ValidRequest(req'[w]) THEN 1 ELSE 0
                   [] op'[w] = "initialize" ->
                        IF HasKey(req'[w], "api_key") THEN 1 ELSE 0
                   [] op'[w] = "health" ->
                        IF pc[w] = "idle" /\ ~IsInitialized(config)
                        THEN 0 ELSE 1
                   [] OTHER -> 0]_vars

C18_Witness ==
    \E w \in Workers :
        /\ Returned(w, "completion")
        /\ up[w].kind = "response"
        /\ up[w].status = 503
        /\ resp[w].transient
        /\ calls[w] = 1

\* C19: every invocation of initialize, health and completion returns a
\* response whatever timeout value an earlier initialize stored: no caller is
\* ever left waiting without limit on an upstream that never answers.
C19_NoCallerBlocked == \A w \in Workers : pc[w] # "blocked"

\* C20: the initialization state is monotonic: no step of any operation takes
\* an initialized adapter back to uninitialized.
C20_InitializedMonotonic ==
    [][IsInitialized(config) => IsInitialized(config')]_vars

====
